---- MODULE Spec2Model ----
(***************************************************************************)
(* Model of src/app.py: the AccumulativeTournament class (the sequential   *)
(* reducer) together with the Streamlit session that main() drives.        *)
(*                                                                         *)
(* Python's None and "optional" values are sequences of length at most 1:  *)
(* None is <<>> and a value x is <<x>>.  Python lists are sequences, so a  *)
(* Python index i is the TLA+ index i + 1.                                 *)
(*                                                                         *)
(* A click in Streamlit reruns main() from the top; every click handler of *)
(* main() ends in st.rerun(), which runs main() once more.  An action is   *)
(* therefore the whole run: the load_state of line 252, the handler, and   *)
(* the load_state of the rerun that the handler asks for.                  *)
(***************************************************************************)
EXTENDS Integers, Sequences, FiniteSets, TLC

\* Longest item list a file upload delivers in the model.
MaxItems == 3

None == <<>>
Some(x) == <<x>>

\* The items a file can hold: load_items_from_file builds {'name', 'image_url'}
\* dictionaries, image_url None when the line has no second field.  Names need
\* not be unique, so a list may hold the same entry more than once.
Items ==
    { [name |-> "A", image_url |-> Some("a.png")],
      [name |-> "B", image_url |-> None],
      [name |-> "C", image_url |-> Some("c.png")] }

\* The uploaded lists: non-empty (main() offers "Start Tournament" only under
\* `if items:`), of every length up to MaxItems, an entry possibly occurring more
\* than once; to keep the session's state space small, not twice in a row.
ItemLists ==
    { l \in UNION { [1..n -> Items] : n \in 1..MaxItems } :
        \A i \in 1..(Len(l) - 1) : l[i] # l[i + 1] }

\* The values a caller may pass as `choice`; main() passes "item1" and "item2".
Choices == {"item1", "item2", "other"}

VARIABLES
    tournament,        \* st.session_state.tournament: None or the object
    tournament_state,  \* st.session_state["tournament_state"]: None (key absent) or the dict
    items_loaded,      \* st.session_state.items_loaded
    call,              \* the last operation: its name, argument, the object (None for
                       \* the constructor) and the snapshot it was called on, the
                       \* exception it raised and, for a query, the value it returned
    session,           \* whether the current object began fresh, and the number of
                       \* submit_choice calls made on it since
    track              \* for the object and for the snapshot: the position (Python
                       \* index) of the item that is champion, and the positions of
                       \* the losers of the records of the log

vars == <<tournament, tournament_state, items_loaded, call, session, track>>

-----------------------------------------------------------------------------
(* class AccumulativeTournament *)

\* __init__
NewTournament(items) ==
    [ items              |-> items,
      current_winner     |-> None,
      current_index      |-> 0,
      comparison_history |-> <<>> ]

\* is_complete
is_complete(t) == t.current_index >= Len(t.items)

\* initialize_state without its `not in` test: the snapshot is always rewritten.
initialize_state_always(ss) ==
    Some([ current_winner     |-> None,
           current_index      |-> 0,
           comparison_history |-> <<>>,
           is_complete        |-> FALSE ])

\* initialize_state: writes the empty snapshot only when the key is absent.
initialize_state(ss) ==
    IF ss = None
    THEN Some([ current_winner     |-> None,
                current_index      |-> 0,
                comparison_history |-> <<>>,
                is_complete        |-> FALSE ])
    ELSE ss

\* save_state: the snapshot of the object.
save_state(t) ==
    Some([ current_winner     |-> t.current_winner,
           current_index      |-> t.current_index,
           comparison_history |-> t.comparison_history,
           is_complete        |-> is_complete(t) ])

\* load_state: copies the snapshot into the object when the key is present.
load_state(t, ss) ==
    IF ss # None
    THEN [ t EXCEPT !.current_winner     = ss[1].current_winner,
                    !.current_index      = ss[1].current_index,
                    !.comparison_history = ss[1].comparison_history ]
    ELSE t

\* get_next_comparison: the pair, or the IndexError of items[1] on a one-item list.
get_next_comparison(t) ==
    IF is_complete(t)
    THEN [exc |-> "none", item1 |-> None, item2 |-> None]
    ELSE IF t.current_index = 0
    THEN IF Len(t.items) >= 2
         THEN [exc |-> "none", item1 |-> Some(t.items[1]), item2 |-> Some(t.items[2])]
         ELSE [exc |-> "IndexError", item1 |-> None, item2 |-> None]
    ELSE [exc |-> "none", item1 |-> t.current_winner,
          item2 |-> Some(t.items[t.current_index + 1])]

\* HistoryEntry with the two image fields exchanged.
HistoryEntryImagesSwapped(step, winner, loser) ==
    [ step         |-> step,
      winner       |-> winner.name,
      loser        |-> loser.name,
      winner_image |-> loser.image_url,
      loser_image  |-> winner.image_url ]

\* HistoryEntry numbering from the cursor itself, without the + 1.
HistoryEntryZeroBased(step, winner, loser) ==
    [ step         |-> step - 1,
      winner       |-> winner.name,
      loser        |-> loser.name,
      winner_image |-> winner.image_url,
      loser_image  |-> loser.image_url ]

\* The dictionary submit_choice appends (lines 70-76): winner and loser are items.
HistoryEntry(step, winner, loser) ==
    [ step         |-> step,
      winner       |-> winner.name,
      loser        |-> loser.name,
      winner_image |-> winner.image_url,
      loser_image  |-> loser.image_url ]

\* Chosen with the two branches exchanged.
ChosenSwapped(choice, c) ==
    IF choice = "item1"
    THEN [winner |-> c.item2, loser |-> c.item1]
    ELSE [winner |-> c.item1, loser |-> c.item2]

\* Lines 62-67: "item1" picks the left item, every other value the right one.
Chosen(choice, c) ==
    IF choice = "item1"
    THEN [winner |-> c.item1, loser |-> c.item2]
    ELSE [winner |-> c.item2, loser |-> c.item1]

\* Advance without the first step's 0 -> 2.
AdvanceByOne(index) == index + 1

\* Advance with every step taken as the first one.
AdvanceByTwo(index) == index + 2

\* Lines 81-86: the first comparison consumes two items, every later one one.
Advance(index) == IF index = 0 THEN 2 ELSE index + 1

\* submit_choice past its guard (lines 60-88): the object and the snapshot after
\* the call, and the exception.  Subscripting a None winner or loser raises
\* TypeError while the dictionary is built, before anything is changed.
record_choice(t, ss, choice) ==
    LET c == get_next_comparison(t) IN
    IF c.exc # "none"
    THEN [t |-> t, ss |-> ss, exc |-> c.exc]
    ELSE LET p == Chosen(choice, c) IN
         IF p.winner = None \/ p.loser = None
         THEN [t |-> t, ss |-> ss, exc |-> "TypeError"]
         ELSE LET t1 == [ t EXCEPT
                           !.comparison_history =
                               Append(@, HistoryEntry(t.current_index + 1,
                                                      p.winner[1], p.loser[1])),
                           !.current_winner = p.winner,
                           !.current_index = Advance(@) ]
              IN [t |-> t1, ss |-> save_state(t1), exc |-> "none"]

\* submit_choice without the guard of lines 57-58.
submit_choice_unguarded(t, ss, choice) == record_choice(t, ss, choice)

\* submit_choice: returns at once, silently, on a complete object (lines 57-58).
submit_choice(t, ss, choice) ==
    IF is_complete(t)
    THEN [t |-> t, ss |-> ss, exc |-> "none"]
    ELSE record_choice(t, ss, choice)

\* reset that leaves the key in st.session_state.
reset_keeping_snapshot(t, ss) ==
    [ t  |-> [ t EXCEPT !.current_winner = None,
                        !.current_index = 0,
                        !.comparison_history = <<>> ],
      ss |-> ss ]

\* reset that forgets to clear current_winner.
reset_keeping_winner(t, ss) ==
    [ t  |-> [ t EXCEPT !.current_index = 0,
                        !.comparison_history = <<>> ],
      ss |-> None ]

\* reset
reset(t, ss) ==
    [ t  |-> [ t EXCEPT !.current_winner = None,
                        !.current_index = 0,
                        !.comparison_history = <<>> ],
      ss |-> None ]

\* get_final_winner without its completion check.
get_final_winner_unchecked(t) == t.current_winner

\* get_final_winner
get_final_winner(t) ==
    IF ~is_complete(t) THEN None ELSE t.current_winner

\* The three methods that only read, by name.
QueryOps == {"is_complete", "get_next_comparison", "get_final_winner"}

\* What the method returns; for get_next_comparison the pair or its exception.
Returned(op, t) ==
    CASE op = "is_complete"         -> is_complete(t)
      [] op = "get_next_comparison" -> get_next_comparison(t)
      [] OTHER                      -> get_final_winner(t)

\* A query that moves the cursor on, as an iterator's next would.
query_advancing(t, ss, op) ==
    [ t   |-> [t EXCEPT !.current_index = @ + 1],
      ss  |-> ss,
      ret |-> Returned(op, t) ]

\* is_complete, get_next_comparison, get_final_winner (lines 41-54, 97-100): no
\* assignment and no call of save_state, so the object and the snapshot are after
\* the call what they were before it.
query(t, ss, op) ==
    [ t   |-> t,
      ss  |-> ss,
      ret |-> Returned(op, t) ]

-----------------------------------------------------------------------------
(* main() *)

\* What one run of main() draws below the sidebar (lines 217-351).
Screen(loaded, tn, ss) ==
    IF ~loaded THEN "welcome"
    ELSE IF tn = None THEN "blank"
    ELSE LET t == load_state(tn[1], ss) IN
         IF is_complete(t) THEN "results"
         ELSE LET c == get_next_comparison(t) IN
              IF c.exc # "none" THEN "exception"
              ELSE IF c.item1 # None /\ c.item2 # None THEN "comparison"
              ELSE "blank"

\* The run of main() that st.rerun() starts: line 252 reloads the object.
Rerun(loaded, tn, ss) ==
    IF loaded /\ tn # None THEN Some(load_state(tn[1], ss)) ELSE tn

IsFresh(t) ==
    /\ t.current_index = 0
    /\ t.current_winner = None
    /\ t.comparison_history = <<>>

Count(t, n) == IF n < Len(t.items) THEN n + 1 ELSE n

\* Positions before any comparison.
NoTrack == [champion |-> None, lost |-> {}]

\* The positions of the pair get_next_comparison offers (lines 48-54): items 0 and
\* 1 at cursor 0, then the champion and the item at the cursor.
PairPositions(t, tr) ==
    IF t.current_index = 0
    THEN [left |-> 0, right |-> 1]
    ELSE [left |-> tr.champion[1], right |-> t.current_index]

\* The positions after submit_choice(choice) on t gave r: when a record was
\* appended, the chosen side (lines 62-67) is champion and the other has lost.
TrackChoice(tr, t, r, choice) ==
    IF Len(r.t.comparison_history) > Len(t.comparison_history)
    THEN LET pp == PairPositions(t, tr)
             w  == IF choice = "item1" THEN pp.left ELSE pp.right
             l  == IF choice = "item1" THEN pp.right ELSE pp.left
         IN [champion |-> Some(w), lost |-> tr.lost \union {l}]
    ELSE tr

\* The object's positions after load_state: those of the snapshot, when there is one.
TrackLoaded(trk, ss) == IF ss # None THEN trk.ss ELSE trk.obj

Init ==
    /\ tournament = None
    /\ tournament_state = None
    /\ items_loaded = FALSE
    /\ call = [op |-> "init", choice |-> "", pre |-> None, pre_state |-> None,
               exc |-> "none", ret |-> None]
    /\ session = [fresh |-> FALSE, calls |-> 0]
    /\ track = [obj |-> NoTrack, ss |-> NoTrack]

\* "Start Tournament" (lines 210-214), then the rerun.
StartTournament(items) ==
    LET ss == initialize_state(tournament_state)
        tn == Rerun(TRUE, Some(NewTournament(items)), ss)
    IN /\ tournament' = tn
       /\ tournament_state' = ss
       /\ items_loaded' = TRUE
       /\ call' = [op |-> "start", choice |-> "", pre |-> None,
                   pre_state |-> tournament_state, exc |-> "none", ret |-> None]
       /\ session' = [fresh |-> IsFresh(tn[1]), calls |-> 0]
       /\ LET kept == IF tournament_state = None THEN NoTrack ELSE track.ss
          IN track' = [obj |-> kept, ss |-> kept]

\* A button of the comparison screen (lines 319-329): submit_choice, then the rerun.
Pick(choice) ==
    /\ Screen(items_loaded, tournament, tournament_state) = "comparison"
    /\ LET t == load_state(tournament[1], tournament_state)
           r == submit_choice(t, tournament_state, choice)
       IN /\ tournament' = Rerun(items_loaded, Some(r.t), r.ss)
          /\ tournament_state' = r.ss
          /\ call' = [op |-> "submit_choice", choice |-> choice, pre |-> Some(t),
                      pre_state |-> tournament_state, exc |-> r.exc, ret |-> None]
          /\ session' = [session EXCEPT !.calls = Count(t, @)]
          /\ LET now == TrackChoice(TrackLoaded(track, tournament_state), t, r, choice)
             IN track' = [obj |-> now, ss |-> IF r.ss # None THEN now ELSE track.ss]
    /\ UNCHANGED items_loaded

KeepThis == Pick("item1")

ChooseThis == Pick("item2")

\* The handler of both reset buttons (lines 288-292 and 347-351).
ResetHandler ==
    LET t == load_state(tournament[1], tournament_state)
        r == reset(t, tournament_state)
    IN /\ tournament' = None
       /\ tournament_state' = r.ss
       /\ items_loaded' = FALSE
       /\ call' = [op |-> "reset", choice |-> "", pre |-> Some(t),
                   pre_state |-> tournament_state, exc |-> "none", ret |-> None]
       /\ session' = [fresh |-> FALSE, calls |-> 0]
       /\ track' = [obj |-> NoTrack, ss |-> NoTrack]

\* "Start New Tournament" on the results screen.
StartNewTournament ==
    /\ Screen(items_loaded, tournament, tournament_state) = "results"
    /\ ResetHandler

\* "Reset Tournament" on the comparison screen.
ResetTournament ==
    /\ Screen(items_loaded, tournament, tournament_state) = "comparison"
    /\ ResetHandler

\* Any other interaction reruns main(): line 252 reloads the object, and drawing a
\* one-item tournament raises the IndexError of get_next_comparison.
Refresh ==
    /\ tournament # None
    /\ tournament' = Rerun(items_loaded, tournament, tournament_state)
    /\ call' = [op |-> "load_state", choice |-> "", pre |-> tournament,
                pre_state |-> tournament_state,
                exc |-> IF Screen(items_loaded, tournament, tournament_state) = "exception"
                        THEN "IndexError" ELSE "none",
                ret |-> None]
    /\ track' = [track EXCEPT !.obj = IF items_loaded
                                       THEN TrackLoaded(track, tournament_state)
                                       ELSE @]
    /\ UNCHANGED <<tournament_state, items_loaded, session>>

-----------------------------------------------------------------------------
(* The class called directly, in any state of the object *)

CallSubmitChoice(choice) ==
    /\ tournament # None
    /\ LET r == submit_choice(tournament[1], tournament_state, choice)
       IN /\ tournament' = Some(r.t)
          /\ tournament_state' = r.ss
          /\ call' = [op |-> "submit_choice", choice |-> choice, pre |-> tournament,
                      pre_state |-> tournament_state, exc |-> r.exc, ret |-> None]
          /\ session' = [session EXCEPT !.calls = Count(tournament[1], @)]
          /\ LET now == TrackChoice(track.obj, tournament[1], r, choice)
             IN track' = IF now # track.obj THEN [obj |-> now, ss |-> now] ELSE track
    /\ UNCHANGED items_loaded

CallReset ==
    /\ tournament # None
    /\ LET r == reset(tournament[1], tournament_state)
       IN /\ tournament' = Some(r.t)
          /\ tournament_state' = r.ss
          /\ call' = [op |-> "reset", choice |-> "", pre |-> tournament,
                      pre_state |-> tournament_state, exc |-> "none", ret |-> None]
          /\ session' = [fresh |-> TRUE, calls |-> 0]
          /\ track' = [obj |-> NoTrack, ss |-> NoTrack]
    /\ UNCHANGED items_loaded

\* A query called directly.
CallQuery(op) ==
    /\ tournament # None
    /\ LET r == query(tournament[1], tournament_state, op)
       IN /\ tournament' = Some(r.t)
          /\ tournament_state' = r.ss
          /\ call' = [op |-> op, choice |-> "", pre |-> tournament,
                      pre_state |-> tournament_state,
                      exc |-> IF op = "get_next_comparison" THEN r.ret.exc ELSE "none",
                      ret |-> r.ret]
    /\ UNCHANGED <<items_loaded, session, track>>

CallIsComplete == CallQuery("is_complete")

CallGetNextComparison == CallQuery("get_next_comparison")

CallGetFinalWinner == CallQuery("get_final_winner")

\* The class used directly as main() uses it (the constructor, initialize_state,
\* load_state), with the empty list that main() never passes (line 204): __init__
\* takes every list, nothing is raised.
CallCreate(items) ==
    LET ss == initialize_state(tournament_state)
        t  == load_state(NewTournament(items), ss)
    IN /\ tournament' = Some(t)
       /\ tournament_state' = ss
       /\ call' = [op |-> "create", choice |-> "", pre |-> None,
                   pre_state |-> tournament_state, exc |-> "none", ret |-> None]
       /\ session' = [fresh |-> IsFresh(t), calls |-> 0]
       /\ LET kept == IF tournament_state = None THEN NoTrack ELSE track.ss
          IN track' = [obj |-> kept, ss |-> kept]
       /\ UNCHANGED items_loaded

Next ==
    \/ \E items \in ItemLists : StartTournament(items)
    \/ KeepThis
    \/ ChooseThis
    \/ StartNewTournament
    \/ ResetTournament
    \/ Refresh
    \/ \E choice \in Choices : CallSubmitChoice(choice)
    \/ CallReset
    \/ CallCreate(<<>>)
    \/ CallIsComplete
    \/ CallGetNextComparison
    \/ CallGetFinalWinner

Spec == Init /\ [][Next]_vars

-----------------------------------------------------------------------------
(* Properties *)

Max(a, b) == IF a >= b THEN a ELSE b

NoPair == [exc |-> "none", item1 |-> None, item2 |-> None]

\* get_next_comparison returned two items.
PairReturned(t) ==
    LET c == get_next_comparison(t)
    IN c.exc = "none" /\ c.item1 # None /\ c.item2 # None

\* The last operation was submit_choice, called on an object that was not complete.
SubmittedOnOpen == call.op = "submit_choice" /\ ~is_complete(call.pre[1])

\* The last operation was submit_choice, called on an object that was complete.
SubmittedOnComplete == call.op = "submit_choice" /\ is_complete(call.pre[1])

\* The call raised an exception.
Signalled == call.exc # "none"

\* Nothing the call could touch has changed.
Untouched == tournament = call.pre /\ tournament_state = call.pre_state

\* C1: an object over N >= 2 items that began fresh (cursor 0, no champion, empty
\* log) is complete exactly when N - 1 or more submit_choice calls were made on it,
\* whatever the picks, and its log then holds exactly N - 1 records.
C1_CompleteAfterNMinusOneCalls ==
    (tournament # None /\ session.fresh /\ Len(tournament[1].items) >= 2) =>
        LET t == tournament[1]
            N == Len(t.items)
        IN /\ is_complete(t) <=> session.calls >= N - 1
           /\ is_complete(t) => Len(t.comparison_history) = N - 1

C1_Witness ==
    /\ tournament # None
    /\ session.fresh
    /\ Len(tournament[1].items) = 3
    /\ session.calls = 2
    /\ is_complete(tournament[1])
    /\ Len(tournament[1].comparison_history) = 2

\* C2: on every object that is not complete get_next_comparison returns
\* (items[0], items[1]) when the cursor is 0 and (champion, items[cursor])
\* otherwise; on a complete object it returns no pair.
C2_NextPair ==
    tournament # None =>
        LET t == tournament[1]
            c == get_next_comparison(t)
        IN IF is_complete(t)
           THEN c = NoPair
           ELSE /\ c.exc = "none"
                /\ IF t.current_index = 0
                   THEN c.item1 = Some(t.items[1]) /\ c.item2 = Some(t.items[2])
                   ELSE /\ c.item1 = t.current_winner
                        /\ c.item2 = Some(t.items[t.current_index + 1])

\* C2, for the lists that have an items[1]: the pairing rule on every object over
\* two or more items.
C2_NextPairOfTwoOrMore ==
    (tournament # None /\ Len(tournament[1].items) >= 2) => C2_NextPair

\* [A, B, C] after picking A: the pair on offer is (A, C).
C2_ScenarioReached ==
    /\ tournament # None
    /\ session.fresh
    /\ Len(tournament[1].items) = 3
    /\ tournament[1].items[1].name = "A"
    /\ tournament[1].items[2].name = "B"
    /\ tournament[1].items[3].name = "C"
    /\ call.op = "submit_choice" /\ call.choice = "item1"
    /\ tournament[1].current_index = 2
    /\ get_next_comparison(tournament[1]).item1 = Some(tournament[1].items[1])
    /\ get_next_comparison(tournament[1]).item2 = Some(tournament[1].items[3])

C4_StartIsFresh ==
    call.op = "start" =>
        /\ tournament[1].current_index = 0
        /\ tournament[1].current_winner = None
        /\ tournament[1].comparison_history = <<>>

\* C5: the cursor of the tournament lies between 0 and the length of its item list.
C5_CursorInRange ==
    tournament # None =>
        /\ 0 <= tournament[1].current_index
        /\ tournament[1].current_index <= Len(tournament[1].items)

\* C6: the champion is None exactly when the cursor is 0, in the object and in the
\* persisted snapshot.
C6_ChampionNoneIffCursorZero ==
    /\ tournament # None =>
           (tournament[1].current_winner = None <=> tournament[1].current_index = 0)
    /\ tournament_state # None =>
           (tournament_state[1].current_winner = None
               <=> tournament_state[1].current_index = 0)

C6_Witness ==
    /\ tournament # None
    /\ call.op = "submit_choice"
    /\ tournament[1].current_index > 0
    /\ tournament[1].current_winner # None
    /\ tournament_state # None
    /\ tournament_state[1].current_index > 0

\* C7: the log holds max(cursor - 1, 0) records, in the object and in the
\* snapshot; a submit_choice that records a comparison moves the cursor from 0 to 2
\* or else by 1, and adds one record.
C7_LogLength ==
    /\ tournament # None =>
           Len(tournament[1].comparison_history)
               = Max(tournament[1].current_index - 1, 0)
    /\ tournament_state # None =>
           Len(tournament_state[1].comparison_history)
               = Max(tournament_state[1].current_index - 1, 0)
    /\ (SubmittedOnOpen /\ call.exc = "none") =>
           /\ tournament[1].current_index =
                  (IF call.pre[1].current_index = 0
                   THEN 2 ELSE call.pre[1].current_index + 1)
           /\ Len(tournament[1].comparison_history)
                  = Len(call.pre[1].comparison_history) + 1

C7_Witness ==
    /\ SubmittedOnOpen
    /\ call.exc = "none"
    /\ call.pre[1].current_index = 2
    /\ tournament[1].current_index = 3
    /\ Len(tournament[1].comparison_history) = 2

C9_InvalidPickRejected ==
    (SubmittedOnOpen /\ call.choice \notin {"item1", "item2"}) =>
        (Signalled /\ Untouched)

\* C10: a tournament over exactly one item is complete as soon as it is started,
\* its final winner is that item, its log is empty and it offers no comparison.
C10_SingleItemComplete ==
    (call.op = "start" /\ Len(tournament[1].items) = 1) =>
        /\ is_complete(tournament[1])
        /\ get_final_winner(tournament[1]) = Some(tournament[1].items[1])
        /\ tournament[1].comparison_history = <<>>
        /\ get_next_comparison(tournament[1]) = NoPair

\* C11: creating a tournament from an empty item list signals an error (the
\* InvalidInput of the claim; any exception counts) and produces no state: no
\* object over the empty list, and no session snapshot written.
C11_EmptyListRejected ==
    call.op = "create" =>
        /\ Signalled
        /\ tournament = None \/ Len(tournament[1].items) > 0
        /\ tournament_state = call.pre_state

\* C12: reset, from any state, leaves no persisted snapshot and, where the object
\* is kept, an object with cursor 0, no champion and an empty log over the same
\* items; a start that finds no snapshot, as after reset, gives the state of a
\* first-ever session: a fresh object and the empty snapshot.
C12_ResetThenCreateIsInitial ==
    /\ call.op = "reset" =>
           /\ tournament_state = None
           /\ tournament # None =>
                  /\ tournament[1].items = call.pre[1].items
                  /\ tournament[1].current_index = 0
                  /\ tournament[1].current_winner = None
                  /\ tournament[1].comparison_history = <<>>
    /\ (call.op = "start" /\ call.pre_state = None) =>
           /\ tournament[1].current_index = 0
           /\ tournament[1].current_winner = None
           /\ tournament[1].comparison_history = <<>>
           /\ tournament_state = Some([ current_winner     |-> None,
                                        current_index      |-> 0,
                                        comparison_history |-> <<>>,
                                        is_complete        |-> FALSE ])

\* A reset of a complete tournament with a two-record log.
C12_Witness ==
    /\ call.op = "reset"
    /\ is_complete(call.pre[1])
    /\ Len(call.pre[1].comparison_history) = 2
    /\ call.pre_state # None
    /\ tournament_state = None

\* C13: is_complete, get_next_comparison and get_final_winner leave the items, the
\* cursor, the champion, the log and the persisted snapshot as they were, and a
\* second call, made on the state the first one left, returns what the first did.
C13_QueriesAreReadOnly ==
    call.op \in QueryOps =>
        /\ Untouched
        /\ call.ret = Returned(call.op, tournament[1])

\* get_next_comparison on a tournament in progress, whose snapshot exists.
C13_Witness ==
    /\ call.op = "get_next_comparison"
    /\ tournament_state # None
    /\ tournament[1].current_index = 2
    /\ Len(tournament[1].items) = 3
    /\ call.ret.item1 = tournament[1].current_winner
    /\ call.ret.item2 = Some(tournament[1].items[3])

\* C14: get_final_winner returns None while the cursor is below the number of
\* items and the champion once it is not; over two or more items that champion is
\* the winner, by name and image, of the last record of the log.  A call of the
\* method returns just that.
C14_FinalWinner ==
    tournament # None =>
        LET t   == tournament[1]
            r   == get_final_winner(t)
            log == t.comparison_history
        IN /\ t.current_index < Len(t.items) => r = None
           /\ t.current_index >= Len(t.items) => r = t.current_winner
           /\ (t.current_index >= Len(t.items) /\ Len(t.items) >= 2) =>
                  /\ r # None
                  /\ Len(log) > 0
                  /\ log[Len(log)].winner = r[1].name
                  /\ log[Len(log)].winner_image = r[1].image_url
           /\ call.op = "get_final_winner" => call.ret = r

\* get_final_winner on a complete three-item tournament whose last challenger won.
C14_Witness ==
    /\ call.op = "get_final_winner"
    /\ session.fresh
    /\ Len(tournament[1].items) = 3
    /\ tournament[1].current_index = 3
    /\ call.ret = Some(tournament[1].items[3])

IsPrefix(a, b) == Len(a) <= Len(b) /\ SubSeq(b, 1, Len(a)) = a

\* No record was removed or altered by the last operation, reset apart: the log
\* the operation found (for a start, the one of the snapshot it found) is a prefix
\* of the log it left.
RecordsKept ==
    /\ (call.op \in QueryOps \union {"submit_choice", "load_state"}) =>
           IsPrefix(call.pre[1].comparison_history, tournament[1].comparison_history)
    /\ (call.op = "start" /\ call.pre_state # None) =>
           IsPrefix(call.pre_state[1].comparison_history,
                    tournament[1].comparison_history)

\* C15: every submit_choice on an object that is not complete appends exactly one
\* record and leaves the earlier ones in place, and no operation other than reset
\* removes or alters a record.
C15_LogAppendOnly ==
    /\ SubmittedOnOpen =>
           Len(tournament[1].comparison_history)
               = Len(call.pre[1].comparison_history) + 1
    /\ RecordsKept

\* C15, for the calls that raise nothing: one record appended, the rest kept.
C15_LogAppendOnlyUnlessRaised ==
    /\ (SubmittedOnOpen /\ ~Signalled) =>
           Len(tournament[1].comparison_history)
               = Len(call.pre[1].comparison_history) + 1
    /\ RecordsKept

C17_ChampionNeverLost ==
    tournament # None =>
        /\ (track.obj.champion = None) <=> (tournament[1].current_winner = None)
        /\ Cardinality(track.obj.lost) = Len(tournament[1].comparison_history)
        /\ track.obj.champion # None => track.obj.champion[1] \notin track.obj.lost

\* The challenger at position 2 beat a champion that had won the first comparison.
C17_Witness ==
    /\ tournament # None
    /\ call.op = "submit_choice"
    /\ track.obj.champion = Some(2)
    /\ track.obj.lost = {0, 1}
    /\ Len(tournament[1].comparison_history) = 2

\* The last operation was submit_choice and it appended a record.
RecordAppended ==
    /\ call.op = "submit_choice"
    /\ Len(tournament[1].comparison_history) > Len(call.pre[1].comparison_history)

\* C18: the record submit_choice("item1" or "item2") appends carries the cursor at
\* the time of the call plus 1 as its round, the name and the image of the picked
\* item of the pair get_next_comparison returned as its winner, and the name and
\* the image of the other item of that pair as its loser.
C18_RecordFields ==
    (RecordAppended /\ call.choice \in {"item1", "item2"}) =>
        LET c     == get_next_comparison(call.pre[1])
            left  == call.choice = "item1"
            log   == tournament[1].comparison_history
            rec   == log[Len(log)]
            picked == IF left THEN c.item1[1] ELSE c.item2[1]
            other  == IF left THEN c.item2[1] ELSE c.item1[1]
        IN /\ rec.step = call.pre[1].current_index + 1
           /\ rec.winner = picked.name
           /\ rec.winner_image = picked.image_url
           /\ rec.loser = other.name
           /\ rec.loser_image = other.image_url

\* On [A, B, C]: A kept against B, then C chosen against A; round 3, C over A.
C18_Witness ==
    /\ RecordAppended
    /\ call.choice = "item2"
    /\ call.pre[1].current_index = 2
    /\ tournament[1].comparison_history[2] =
           [ step |-> 3, winner |-> "C", loser |-> "A",
             winner_image |-> Some("c.png"), loser_image |-> Some("a.png") ]

\* C19, as claimed: the k-th record of the log has round number k.
C19_RoundsConsecutive ==
    tournament # None =>
        \A k \in 1..Len(tournament[1].comparison_history) :
            tournament[1].comparison_history[k].step = k

\* C19, amended: rounds are the cursor plus 1, so the first record has round 1 and
\* the k-th record, from the second on, round k + 1: 1, 3, 4, .., N.
C19_RoundsSkipTwo ==
    tournament # None =>
        \A k \in 1..Len(tournament[1].comparison_history) :
            tournament[1].comparison_history[k].step = (IF k = 1 THEN 1 ELSE k + 1)

\* A complete ranking of three items: rounds 1 and 3.
C19_Witness ==
    /\ tournament # None
    /\ session.fresh
    /\ Len(tournament[1].items) = 3
    /\ is_complete(tournament[1])
    /\ Len(tournament[1].comparison_history) = 2
    /\ tournament[1].comparison_history[1].step = 1
    /\ tournament[1].comparison_history[2].step = 3

ItemsOf(t) == { t.items[i] : i \in 1..Len(t.items) }

NamesOf(t) == { t.items[i].name : i \in 1..Len(t.items) }

\* C20: the champion is None or one of the items of the tournament's list, and
\* every record of the log names two items of that list.
C20_StateBelongsToItems ==
    tournament # None =>
        LET t == tournament[1] IN
        /\ t.current_winner = None \/ t.current_winner[1] \in ItemsOf(t)
        /\ \A k \in 1..Len(t.comparison_history) :
               /\ t.comparison_history[k].winner \in NamesOf(t)
               /\ t.comparison_history[k].loser \in NamesOf(t)

====
